---- MODULE Spec2Model ----
(***************************************************************************)
(* Scrapple backend: camera arbiter (CVVideoService), process bridge       *)
(* (LeRobotBridge), the arm/voice routes that drive them, and the Gemini   *)
(* evaluation retry loop (VoiceService.process_command).                   *)
(***************************************************************************)
EXTENDS Integers, Sequences, FiniteSets, TLC

(* ------------------------------ bounds --------------------------------- *)
\* number of live control processes the bridge may have lost track of
MaxOrphans == 1
\* number of frames the feed reads successfully
MaxFrames == 4
\* number of boxes a detector run finds
MaxBoxes == 2

(* --------------------------- program constants ------------------------- *)
GEMINI_MAX_RETRIES == 3
GEMINI_RETRY_DELAY == 10
\* `if consecutive_failures >= 30:` in both stream loops
failure_limit == 30
\* `yolo_interval = 3  # Run YOLO every 3rd frame`
yolo_interval == 3

Channels == {"front", "handeye"}
\* object names a voice decision can carry; /api/lerobot/run has its own,
\* hard-coded "nut"
Targets == {"gear"}
NoTarget == "None"

VARIABLES
    paused,        \* CVVideoService._paused
    cap,           \* channel -> "None" | "open" | "closed"  (_cap, _cap_2)
    stream_pc,     \* channel -> position of the stream loop
    lastCall,      \* last pause()/resume() call made and what it returned
    process,       \* LeRobotBridge._process: "None" | "alive" | "exited"
    orphans,       \* live control processes the bridge no longer references
    readers,       \* number of _read_output threads still draining a process
    last_target,   \* LeRobotBridge._last_target
    running,       \* ad-hoc attribute lerobot_bridge._running set by the routes
    run_pc,        \* position of the /api/lerobot/run handler
    voice_pc,      \* position of the voice turn handler
    last_decision, \* global_state["last_decision"]
    lastOp,        \* the operation performed by the last step and its outcome
    script,        \* evaluator responses per attempt (input of process_command)
    command_text,  \* transcript handed to process_command
    gemini_client, \* whether VoiceService._gemini_client is set
    evalOut,       \* outcome of process_command, "pending" before the call
    turn,          \* the voice route call in progress or last finished
    pc,            \* thread -> position inside the operation it runs
    lock,          \* lock -> thread holding it, "none" when free
    consecutive_failures, \* channel -> the stream loop's local counter
    frozen_frame,  \* channel -> "None" | "frame"  (_frozen_frame, _frozen_frame_2)
    frame_count,   \* generate_stream's local frame index
    lists,         \* the list objects in play: name -> content
    latest_detections,  \* the list object CVVideoService._latest_detections refers to
    cached_detections,  \* the list object generate_stream's local refers to
    results,       \* number of boxes the model reported for the frame in hand
    detected_at,   \* index of the frame the published list was computed from
    fetched        \* reader -> the list object its last get_detections() returned

arbiterVars == <<paused, cap, lastCall, frozen_frame>>
feedVars == <<frame_count, lists, latest_detections, cached_detections, results,
              detected_at, fetched>>
bridgeVars == <<process, orphans, readers, last_target, running>>
evalVars == <<script, command_text, gemini_client, evalOut, turn, pc, lock,
              consecutive_failures, feedVars>>
vars == <<paused, cap, stream_pc, lastCall, process, orphans, readers,
          last_target, running, run_pc, voice_pc, last_decision, lastOp,
          script, command_text, gemini_client, evalOut, turn, pc, lock,
          consecutive_failures,
          frozen_frame, frame_count, lists, latest_detections, cached_detections,
          results, detected_at, fetched>>

Op(name, ret, how) == [op |-> name, ret |-> ret, how |-> how]

(* ===================== VoiceService.process_command ===================== *)

fallback_invalid == [valid |-> "false", target |-> NoTarget, reason |-> "Cannot evaluate."]

\* What one generate_content attempt can produce.
JsonBodies == [valid : {"absent", "true", "false"},
               target : {"absent"} \cup Targets,
               reason : {"absent", "given"}]
Responses == [kind : {"err429", "err503", "errOther", "nonjson", "nondict"},
              body : {[valid |-> "absent", target |-> "absent", reason |-> "absent"]}]
             \cup [kind : {"json"}, body : JsonBodies]

ScriptLen == GEMINI_MAX_RETRIES + 1
Scripts == [1..ScriptLen -> Responses]

\* result.setdefault(...) x3
setdefaults_skipped(body) == body
setdefaults(body) ==
    [valid  |-> IF body.valid = "absent" THEN "false" ELSE body.valid,
     target |-> IF body.target = "absent" THEN NoTarget ELSE body.target,
     reason |-> IF body.reason = "absent" THEN "No reason provided." ELSE body.reason]

RECURSIVE pow2(_)
pow2(n) == IF n <= 0 THEN 1 ELSE 2 * pow2(n - 1)

wait_time_shifted(attempt) == GEMINI_RETRY_DELAY * pow2(attempt)
wait_time(attempt) == GEMINI_RETRY_DELAY * pow2(attempt - 1)

is_retriable_any_exception(r) == r.kind \in {"err429", "err503", "errOther", "nondict"}
is_retriable(r) == r.kind \in {"err429", "err503"}

may_retry_inclusive(attempt) == attempt <= GEMINI_MAX_RETRIES
may_retry(attempt) == attempt < GEMINI_MAX_RETRIES

Out(result, calls, sleeps) == [result |-> result, calls |-> calls, sleeps |-> sleeps]

RECURSIVE attempt_loop(_, _, _)
attempt_loop(s, attempt, sleeps) ==
    IF attempt > GEMINI_MAX_RETRIES
    THEN Out(fallback_invalid, attempt - 1, sleeps)
    ELSE LET r == s[attempt] IN
         IF r.kind = "json" THEN Out(setdefaults(r.body), attempt, sleeps)
         ELSE IF r.kind = "nonjson" THEN Out(fallback_invalid, attempt, sleeps)
         ELSE IF is_retriable(r)
              THEN IF may_retry(attempt)
                   THEN attempt_loop(s, attempt + 1, Append(sleeps, wait_time(attempt)))
                   ELSE Out(fallback_invalid, attempt, sleeps)
              ELSE Out(fallback_invalid, attempt, sleeps)

process_command(client, text, s) ==
    IF ~client THEN Out(fallback_invalid, 0, <<>>)
    ELSE IF text = "" THEN Out(fallback_invalid, 0, <<>>)
    ELSE attempt_loop(s, 1, <<>>)

\* the decisions process_command hands to a route in a voice turn: those of
\* the scripts whose answers carry a reason
TurnScripts == {s \in Scripts : \A i \in 1..ScriptLen : s[i].body.reason # "absent" \/ s[i].kind # "json"}
Decisions == {process_command(TRUE, "grab the nut", s).result : s \in TurnScripts}

(* =========================== CVVideoService ============================= *)

is_paused == paused

\* what release() on a capture handle can do
ReleaseOutcomes == {"released", "raised"}

\* `try: self._cap.release() except: pass`, then `self._cap = None`
after_release_skips_clear(c, o) == IF o = "raised" THEN c ELSE "None"
after_release(c, o) == "None"

\* pause(): under _pause_lock.  how tells which branch ran.
pause_keeps_flag(how) ==
    /\ lastCall' = [call |-> "pause", ret |-> "true"]
    /\ UNCHANGED frozen_frame
    /\ IF paused
       THEN how = "pause_noop" /\ UNCHANGED <<paused, cap>>
       ELSE /\ how = "pause"
            /\ UNCHANGED paused
            /\ cap' = [ch \in Channels |-> "None"]
pause(how) ==
    /\ lastCall' = [call |-> "pause", ret |-> "true"]
    /\ UNCHANGED frozen_frame
    /\ IF paused
       THEN how = "pause_noop" /\ UNCHANGED <<paused, cap>>
       ELSE /\ how = "pause"
            /\ paused' = TRUE
            /\ \E rel \in [Channels -> ReleaseOutcomes] :
                  cap' = [ch \in Channels |->
                            IF cap[ch] = "None" THEN "None"
                            ELSE after_release(cap[ch], rel[ch])]

\* resume() has no statement about _cap or _cap_2
resume_handles_reopened == cap' = [ch \in Channels |-> "open"]
resume_handles == UNCHANGED cap

\* resume(): under _pause_lock; never touches the capture handles, and
\* sets `self._frozen_frame = None` (not _frozen_frame_2).
resume_keeps_flag(how) ==
    /\ lastCall' = [call |-> "resume", ret |-> "true"]
    /\ UNCHANGED <<cap, paused, frozen_frame>>
    /\ how = IF paused THEN "resume" ELSE "resume_noop"
resume(how) ==
    /\ lastCall' = [call |-> "resume", ret |-> "true"]
    /\ resume_handles
    /\ IF ~paused
       THEN how = "resume_noop" /\ UNCHANGED <<paused, frozen_frame>>
       ELSE /\ how = "resume" /\ paused' = FALSE
            /\ frozen_frame' = [frozen_frame EXCEPT !["front"] = "None"]   \* line 114

ArbiterHows == {"pause", "pause_noop", "resume", "resume_noop"}

(* ============================ LeRobotBridge ============================= *)
\* _process is "None", or a Popen handle whose poll() is None ("alive") or
\* not None ("exited").  orphans counts processes the bridge launched that
\* are still alive although the bridge dropped their handle.

poll_is_None == process = "alive"
is_running_handle_only == process # "None"
is_running == process # "None" /\ poll_is_None

already_running_never == FALSE
already_running == process # "None" /\ poll_is_None

already_running_result_failure == "false"
already_running_result == "true"

\* `except Exception as e: ... return False`
launch_failed_result_success == "true"
launch_failed_result == "false"

\* start_recording_session: under self._lock, hence one step.
start_recording_session(ret, how) ==
    IF already_running
    THEN /\ ret = already_running_result /\ how = "already"
         /\ UNCHANGED <<process, orphans, readers>>
    ELSE \/ /\ process' = "alive"                \* Popen, then Thread.start
            /\ readers' = readers + 1
            /\ orphans' = IF process = "alive" THEN orphans + 1 ELSE orphans
            /\ orphans' <= MaxOrphans
            /\ ret = "true" /\ how = "launched"
         \/ /\ ret = launch_failed_result /\ how = "launch_failed"   \* Popen raises
            /\ UNCHANGED <<process, orphans, readers>>

\* send_enter: under self._lock; writes "\n" to the process's stdin.
no_session_handle_only == process = "None"
no_session == process = "None" \/ ~poll_is_None

send_enter(ret, how) ==
    IF no_session
    THEN ret = "false" /\ how = "no_session"
    ELSE \/ ret = "true" /\ how = "written"
         \/ ret = "false" /\ how = "write_failed"

\* What the graceful-shutdown block of stop_session can meet.
StopOutcomes == {"graceful", "forced", "kill_raised", "error"}

kill_exception_propagates == UNCHANGED process

\* stop_session: under self._lock.
stop_session(ret, how) ==
    IF process = "None"
    THEN ret = "false" /\ how = "no_session" /\ UNCHANGED <<process, orphans, readers>>
    ELSE IF poll_is_None
    THEN \E o \in StopOutcomes :
           /\ how = o
           /\ CASE o = "graceful" ->      \* terminate(); wait(5) returns
                      /\ process' = "None" /\ readers' = readers - 1
                      /\ UNCHANGED orphans /\ ret = "true"
                [] o = "forced" ->        \* wait(5) times out; kill() succeeds
                      /\ process' = "None" /\ readers' = readers - 1
                      /\ UNCHANGED orphans /\ ret = "true"
                [] o = "kill_raised" ->   \* wait(5) times out; kill() raises
                      /\ kill_exception_propagates   \* inside the except handler
                      /\ UNCHANGED <<orphans, readers>> /\ ret = "raise"
                [] o = "error" ->         \* stdin.close()/terminate() raises,
                      /\ process' = "None"          \* caught by `except Exception`
                      /\ orphans < MaxOrphans /\ orphans' = orphans + 1
                      /\ UNCHANGED readers /\ ret = "true"
    ELSE /\ how = "exited" /\ ret = "true"
         /\ process' = "None" /\ UNCHANGED <<orphans, readers>>

Rets == {"true", "false", "raise"}
Hows == {"already", "launched", "launch_failed", "no_session", "written",
         "write_failed", "exited"} \cup StopOutcomes

(* ============================ routes/arm.py ============================= *)

lerobot_start ==
    \E ret \in Rets, how \in Hows :
       /\ start_recording_session(ret, how)
       /\ lastOp' = Op("lerobot_start", ret, how)
       /\ UNCHANGED <<arbiterVars, stream_pc, last_target, running, run_pc,
                      voice_pc, last_decision, evalVars>>

lerobot_stop ==
    \E ret \in Rets, how \in Hows :
       /\ stop_session(ret, how)
       /\ lastOp' = Op("lerobot_stop", ret, how)
       /\ UNCHANGED <<arbiterVars, stream_pc, last_target,
                      running, run_pc, voice_pc, last_decision, evalVars>>

lerobot_enter ==
    \E ret \in Rets, how \in Hows :
       /\ send_enter(ret, how)
       /\ lastOp' = Op("lerobot_enter", ret, how)
       /\ UNCHANGED <<arbiterVars, stream_pc, bridgeVars, run_pc, voice_pc,
                      last_decision, evalVars>>

\* /api/lerobot/run, first half: pause the video, then sleep 0.5 s.
lerobot_run_pause ==
    /\ run_pc = "idle"
    /\ \E how \in ArbiterHows :
          pause(how) /\ lastOp' = Op("lerobot_run_pause", "true", how)
    /\ run_pc' = "trigger"
    /\ UNCHANGED <<stream_pc, bridgeVars, voice_pc, last_decision, evalVars>>

\* /api/lerobot/run, second half: write the trigger file.
lerobot_run_trigger ==
    /\ run_pc = "trigger"
    /\ run_pc' = "idle"
    /\ \/ /\ running' = TRUE /\ last_target' = "nut"
          /\ UNCHANGED arbiterVars
          /\ lastOp' = Op("lerobot_run_trigger", "true", "trigger_written")
       \/ /\ \E how \in ArbiterHows :           \* open()/write raised
               resume(how) /\ lastOp' = Op("lerobot_run_trigger", "false", how)
          /\ UNCHANGED <<running, last_target>>
    /\ UNCHANGED <<stream_pc, process, orphans, readers, voice_pc,
                   last_decision, evalVars>>

\* /api/lerobot/kill: terminate()+kill() on the stored process (errors
\* swallowed), reset the bridge fields, resume the video.  Takes no lock.
kill_result_failure == "false"
kill_result == "true"

reset_keeps_target == UNCHANGED last_target
reset_last_target == last_target' = NoTarget

lerobot_kill ==
    /\ IF process = "alive"
       THEN \/ /\ readers' = readers - 1 /\ UNCHANGED orphans    \* killed
            \/ /\ orphans < MaxOrphans                           \* terminate() raised
               /\ orphans' = orphans + 1 /\ UNCHANGED readers
       ELSE UNCHANGED <<orphans, readers>>
    /\ process' = "None"
    /\ running' = FALSE
    /\ reset_last_target
    /\ \E how \in ArbiterHows :
          resume(how) /\ lastOp' = Op("lerobot_kill", kill_result, how)
    /\ UNCHANGED <<stream_pc, run_pc, voice_pc, last_decision, evalVars>>

\* GET /api/lerobot/status: what the route answers in the current state
lerobot_status == [running |-> is_running, last_target |-> last_target]

video_pause ==
    /\ \E how \in ArbiterHows :
          pause(how) /\ lastOp' = Op("video_pause", "true", how)
    /\ UNCHANGED <<stream_pc, bridgeVars, run_pc, voice_pc, last_decision, evalVars>>

video_resume ==
    /\ \E how \in ArbiterHows :
          resume(how) /\ lastOp' = Op("video_resume", "true", how)
    /\ UNCHANGED <<stream_pc, bridgeVars, run_pc, voice_pc, last_decision, evalVars>>

\* A control process exits on its own (crash, episode end); its reader
\* thread sees end of file and returns.
process_exit ==
    /\ \/ /\ process = "alive" /\ process' = "exited" /\ UNCHANGED orphans
       \/ /\ orphans > 0 /\ orphans' = orphans - 1 /\ UNCHANGED process
    /\ readers' = readers - 1
    /\ lastOp' = Op("process_exit", "none", "exited")
    /\ UNCHANGED <<arbiterVars, stream_pc, last_target, running, run_pc, voice_pc,
                   last_decision, evalVars>>

(* ================= CVVideoService stream loops ========================= *)
\* generate_stream ("front", _cap) and generate_stream_handeye ("handeye",
\* _cap_2).  One iteration is three steps, because the paused flag is read
\* under _pause_lock while the capture handle is used without it.

\* `if self.is_paused(): ... yield paused frame; continue`
stream_check_paused(ch) ==
    /\ stream_pc[ch] = "top"
    /\ stream_pc' = [stream_pc EXCEPT ![ch] = IF is_paused THEN "top" ELSE "open"]
    /\ lastOp' = Op("stream", "none", "none")
    /\ UNCHANGED <<arbiterVars, bridgeVars, run_pc, voice_pc, last_decision, evalVars>>

\* `if self._cap is None or not self._cap.isOpened(): self._cap = VideoCapture(i)`
stream_open(ch) ==
    /\ stream_pc[ch] = "open"
    /\ IF cap[ch] # "open"
       THEN \/ /\ cap' = [cap EXCEPT ![ch] = "open"]
               /\ stream_pc' = [stream_pc EXCEPT ![ch] = "read"]
            \/ /\ cap' = [cap EXCEPT ![ch] = "closed"]     \* device not found
               /\ stream_pc' = [stream_pc EXCEPT ![ch] = "top"]
       ELSE /\ stream_pc' = [stream_pc EXCEPT ![ch] = "read"]
            /\ UNCHANGED cap
    /\ lastOp' = Op("stream", "none", "none")
    /\ UNCHANGED <<paused, lastCall, frozen_frame, bridgeVars, run_pc, voice_pc,
                   last_decision, evalVars>>

\* `success, frame = self._cap.read()` and the rest of the iteration.
\* A pause() between the open check and the read leaves _cap = None, and
\* None.read() raises out of the generator.
stream_read(ch) ==
    /\ stream_pc[ch] = "read"
    /\ stream_pc' = [stream_pc EXCEPT ![ch] = IF cap[ch] = "None" THEN "dead" ELSE "top"]
    /\ lastOp' = Op("stream", "none", "none")
    /\ UNCHANGED <<arbiterVars, bridgeVars, run_pc, voice_pc, last_decision, evalVars>>

\* The same iteration with its failure counter.
\* `success, frame = self._cap.read()`, `consecutive_failures += 1`,
\* `if consecutive_failures >= 30`, `consecutive_failures = 0`
stream_read_to(ch, next) ==
    /\ stream_pc[ch] = "read"
    /\ IF cap[ch] = "None"
       THEN /\ stream_pc' = [stream_pc EXCEPT ![ch] = "dead"]   \* None.read()
            /\ lastOp' = Op("stream", "raise", "read")
            /\ UNCHANGED consecutive_failures
       ELSE \/ /\ consecutive_failures' = [consecutive_failures EXCEPT ![ch] = 0]
               /\ stream_pc' = [stream_pc EXCEPT ![ch] = next]
               /\ lastOp' = Op("stream", "none", "frame")
            \/ /\ consecutive_failures' = [consecutive_failures EXCEPT ![ch] = @ + 1]
               /\ stream_pc' = [stream_pc EXCEPT ![ch] =
                                  IF consecutive_failures[ch] + 1 >= failure_limit
                                  THEN "reopen" ELSE "top"]
               /\ lastOp' = Op("stream", "none", "read_failed")
    /\ UNCHANGED <<arbiterVars, bridgeVars, run_pc, voice_pc, last_decision,
                   script, command_text, gemini_client, evalOut, turn, pc, lock,
                   feedVars>>

\* the read with what follows a good frame left out
stream_read_frame(ch) == stream_read_to(ch, "top")

\* the read of the feed whose frames are followed further
stream_read_image(ch) ==
    /\ stream_read_to(ch, "frame")
    /\ lastOp'.how = "frame" => frame_count < MaxFrames

\* `if frame_count % yolo_interval == 0:`
runs_detector_every_frame(n) == TRUE
runs_detector(n) == n % yolo_interval = 0

\* `cached_detections = []` binds the local to a new list object; the one
\* bound before is the published one or garbage.  A reader's copy is a
\* list object of its own, named by the reader.
Readers == {"r1", "r2"}
ListNames == {"init", "a", "b"} \cup Readers
new_list == IF cached_detections = "a" THEN "b" ELSE "a"

\* one detection dict: the frame it was found in and the number of boxes
\* the model reported for that frame
detection(n, of) == [run |-> n, of |-> of]

\* a good frame: `self._frozen_frame = frame.copy()`, `self._cap.get(...)`,
\* then on every yolo_interval-th frame `results = self.model(frame, ...)`
\* and `cached_detections = []`, else the drawing and `frame_count += 1`
\* (handeye: the border overlay only)
stream_frame(ch) ==
    /\ stream_pc[ch] = "frame"
    /\ frozen_frame' = [frozen_frame EXCEPT ![ch] = "frame"]
    /\ IF ch = "front"
       THEN IF cap[ch] = "None"
            THEN /\ stream_pc' = [stream_pc EXCEPT ![ch] = "dead"]    \* None.get()
                 /\ lastOp' = Op("stream", "raise", "get")
                 /\ UNCHANGED feedVars
            ELSE IF runs_detector(frame_count)
            THEN /\ stream_pc' = [stream_pc EXCEPT ![ch] = "yolo"]
                 /\ results' \in 0..MaxBoxes
                 /\ cached_detections' = new_list
                 /\ lists' = [lists EXCEPT ![new_list] = <<>>]
                 /\ lastOp' = Op("stream", "none", "detect")
                 /\ UNCHANGED <<frame_count, latest_detections, detected_at, fetched>>
            ELSE /\ stream_pc' = [stream_pc EXCEPT ![ch] = "top"]
                 /\ frame_count' = frame_count + 1
                 /\ lastOp' = Op("stream", "none", "drawn")
                 /\ UNCHANGED <<lists, latest_detections, cached_detections,
                                results, detected_at, fetched>>
       ELSE /\ stream_pc' = [stream_pc EXCEPT ![ch] = "top"]
            /\ lastOp' = Op("stream", "none", "drawn")
            /\ UNCHANGED feedVars
    /\ UNCHANGED <<paused, cap, lastCall, bridgeVars, run_pc, voice_pc, last_decision,
                   script, command_text, gemini_client, evalOut, turn, pc, lock,
                   consecutive_failures>>

\* the detector run: `cached_detections.append({...})` per box, then
\* `self._set_detections(cached_detections)`, the drawing, `frame_count += 1`
stream_yolo ==
    /\ stream_pc["front"] = "yolo"
    /\ IF Len(lists[cached_detections]) < results
       THEN /\ lists' = [lists EXCEPT ![cached_detections] =
                                        Append(@, detection(frame_count, results))]
            /\ lastOp' = Op("stream", "none", "append")
            /\ UNCHANGED <<stream_pc, frame_count, latest_detections, results, detected_at>>
       ELSE /\ latest_detections' = cached_detections
            /\ detected_at' = frame_count
            /\ frame_count' = frame_count + 1
            /\ results' = 0
            /\ stream_pc' = [stream_pc EXCEPT !["front"] = "top"]
            /\ lastOp' = Op("stream", "none", "published")
            /\ UNCHANGED lists
    /\ UNCHANGED <<arbiterVars, bridgeVars, run_pc, voice_pc, last_decision,
                   script, command_text, gemini_client, evalOut, turn, pc, lock,
                   consecutive_failures, cached_detections, fetched>>

\* get_detections: `return list(self._latest_detections)`, a new list object
returned_list_alias(l, r) == l
returned_list(l, r) == r

get_detections(r) ==
    /\ fetched' = [fetched EXCEPT ![r] = returned_list(latest_detections, r)]
    /\ lists' = [lists EXCEPT ![r] = lists[latest_detections]]
    /\ lastOp' = Op("get_detections", r, "none")
    /\ UNCHANGED <<arbiterVars, stream_pc, bridgeVars, run_pc, voice_pc, last_decision,
                   script, command_text, gemini_client, evalOut, turn, pc, lock,
                   consecutive_failures, frame_count, latest_detections,
                   cached_detections, results, detected_at>>

\* the caller of get_detections appends to the list it was given (once)
caller_mutates(r) ==
    /\ fetched[r] # "none"
    /\ \A i \in 1..Len(lists[fetched[r]]) : lists[fetched[r]][i].of > 0
    /\ lists' = [lists EXCEPT ![fetched[r]] = Append(@, detection(0, 0))]
    /\ lastOp' = Op("caller_mutates", r, "none")
    /\ UNCHANGED <<arbiterVars, stream_pc, bridgeVars, run_pc, voice_pc, last_decision,
                   script, command_text, gemini_client, evalOut, turn, pc, lock,
                   consecutive_failures, frame_count, latest_detections,
                   cached_detections, results, detected_at, fetched>>

\* after the error frame and `time.sleep(1.0)`:
\* `consecutive_failures = 0; self._cap.release(); self._cap = None`
stream_reopen(ch) ==
    /\ stream_pc[ch] = "reopen"
    /\ consecutive_failures' = [consecutive_failures EXCEPT ![ch] = 0]
    /\ IF cap[ch] = "None"
       THEN /\ stream_pc' = [stream_pc EXCEPT ![ch] = "dead"]   \* None.release()
            /\ lastOp' = Op("stream", "raise", "reopen")
            /\ UNCHANGED cap
       ELSE /\ stream_pc' = [stream_pc EXCEPT ![ch] = "top"]
            /\ cap' = [cap EXCEPT ![ch] = "None"]
            /\ lastOp' = Op("stream", "none", "reopen")
    /\ UNCHANGED <<paused, lastCall, frozen_frame, bridgeVars, run_pc, voice_pc, last_decision,
                   script, command_text, gemini_client, evalOut, turn, pc, lock,
                   feedVars>>

(* ===================== routes/voice.py, dispatch ======================== *)

NoDecision == [valid |-> "false", target |-> NoTarget, reason |-> "unset"]

\* set_target: `self._last_target = target`, then the command file and the
\* callbacks; nothing is written to the process
set_target_ignored(target) == UNCHANGED last_target
set_target(target) == last_target' = target

dispatches_on_valid(d) == d.valid = "true"
dispatches(d) == d.valid = "true" /\ d.target # NoTarget

\* /api/voice/listen and /api/voice/evaluate up to set_target: speak, listen,
\* process_command, speak, record the decision, then
\* run_lerobot_commands(target) begins with set_target.
voice_turn ==
    /\ voice_pc = "idle"
    /\ \/ /\ UNCHANGED <<last_decision, last_target, voice_pc>>   \* empty command
          /\ lastOp' = Op("voice_turn", "false", "no_command")
       \/ \E d \in Decisions :
             /\ last_decision' = d
             /\ IF dispatches(d)
                THEN set_target(d.target) /\ voice_pc' = "check"
                ELSE UNCHANGED <<last_target, voice_pc>>
             /\ lastOp' = Op("voice_turn", d.valid, "decided")
    /\ UNCHANGED <<arbiterVars, stream_pc, process, orphans, readers,
                   running, run_pc, evalVars>>

\* run_lerobot_commands: `if lerobot_bridge.is_running(): time.sleep(0.5)`
run_lerobot_commands_check ==
    /\ voice_pc = "check"
    /\ voice_pc' = IF is_running THEN "enter" ELSE "idle"
    /\ lastOp' = Op("run_lerobot_commands_check", IF is_running THEN "true" ELSE "false", "checked")
    /\ UNCHANGED <<arbiterVars, stream_pc, bridgeVars, run_pc, last_decision, evalVars>>

\* run_lerobot_commands: `lerobot_bridge.send_enter()`
run_lerobot_commands_enter ==
    /\ voice_pc = "enter"
    /\ voice_pc' = "idle"
    /\ \E ret \in Rets, how \in Hows :
          /\ send_enter(ret, how)
          /\ lastOp' = Op("run_lerobot_commands_enter", ret, how)
    /\ UNCHANGED <<arbiterVars, stream_pc, bridgeVars, run_pc, last_decision, evalVars>>

(* ================= routes/voice.py, one step per call =================== *)
\* turn.route      which route is being served ("none" before the first call)
\* turn.heard      "none" before the transcript is known, then "empty"/"text"
\* turn.calls      evaluator calls made by this call's process_command
\* turn.decision   the decision process_command returned
\* turn.speech_failed  which speak() of this call raised
\* turn.response   "pending", "json" (a jsonify body) or "error500" (the
\*                 exception left the view function)
\* turn.returned   the "decision" member of the body
\* turn.speech_error  the member of the body that tells of a speech failure

NoTurn == [route |-> "none", heard |-> "none", calls |-> 0, decision |-> NoDecision,
           speech_failed |-> "none", response |-> "pending",
           returned |-> NoDecision, speech_error |-> "absent"]
NewTurn(route) == [NoTurn EXCEPT !.route = route]

no_audio_decision == [valid |-> "false", target |-> NoTarget, reason |-> "No audio/text detected."]
no_command_decision == [valid |-> "false", target |-> NoTarget, reason |-> "No command provided."]

\* what process_command can return to a route, with the calls it took
TurnOutcomes == {[result |-> process_command(TRUE, "grab the nut", s).result,
                  calls |-> process_command(TRUE, "grab the nut", s).calls] : s \in TurnScripts}

\* speak() either plays the text or raises RuntimeError
SpeakOutcomes == {"spoken", "raised"}

\* /api/voice/announce: the speak is wrapped in try/except that only prints
announce_visible_objects ==
    /\ voice_pc = "idle"
    /\ \E sp \in SpeakOutcomes :
          /\ turn' = [NewTurn("announce") EXCEPT
                         !.speech_failed = IF sp = "raised" THEN "announce" ELSE "none",
                         !.response = "json"]
          /\ lastOp' = Op("announce_visible_objects", "none", sp)
    /\ UNCHANGED <<arbiterVars, stream_pc, bridgeVars, run_pc, voice_pc, last_decision,
                   script, command_text, gemini_client, evalOut, pc, lock,
                   consecutive_failures, feedVars>>

\* /api/voice/listen, State B: voice_service.speak(prompt_text), unguarded
trigger_voice_listen_announce ==
    /\ voice_pc = "idle"
    /\ \E sp \in SpeakOutcomes :
          /\ IF sp = "raised"
             THEN /\ turn' = [NewTurn("listen") EXCEPT !.speech_failed = "announce",
                                                       !.response = "error500"]
                  /\ UNCHANGED voice_pc
             ELSE /\ turn' = NewTurn("listen")
                  /\ voice_pc' = "capture"
          /\ lastOp' = Op("trigger_voice_listen_announce", "none", sp)
    /\ UNCHANGED <<arbiterVars, stream_pc, bridgeVars, run_pc, last_decision,
                   script, command_text, gemini_client, evalOut, pc, lock,
                   consecutive_failures, feedVars>>

\* /api/voice/listen, State C: command_text = voice_service.listen(duration)
trigger_voice_listen_capture ==
    /\ voice_pc = "capture"
    /\ \E h \in {"empty", "text"} :
          /\ turn' = [turn EXCEPT !.heard = h]
          /\ voice_pc' = IF h = "empty" THEN "no_command" ELSE "evaluate"
          /\ lastOp' = Op("trigger_voice_listen_capture", "none", h)
    /\ UNCHANGED <<arbiterVars, stream_pc, bridgeVars, run_pc, last_decision,
                   script, command_text, gemini_client, evalOut, pc, lock,
                   consecutive_failures, feedVars>>

\* /api/voice/listen, `if not command_text:` speak("No command detected."),
\* unguarded, then the body with the fixed decision
trigger_voice_listen_no_command ==
    /\ voice_pc = "no_command"
    /\ voice_pc' = "idle"
    /\ \E sp \in SpeakOutcomes :
          /\ turn' = IF sp = "raised"
                     THEN [turn EXCEPT !.speech_failed = "no_command", !.response = "error500"]
                     ELSE [turn EXCEPT !.response = "json", !.returned = no_audio_decision]
          /\ lastOp' = Op("trigger_voice_listen_no_command", "none", sp)
    /\ UNCHANGED <<arbiterVars, stream_pc, bridgeVars, run_pc, last_decision,
                   script, command_text, gemini_client, evalOut, pc, lock,
                   consecutive_failures, feedVars>>

\* /api/voice/evaluate up to `if not command_text:`
evaluate_voice_command_begin ==
    /\ voice_pc = "idle"
    /\ \E h \in {"empty", "text"} :
          /\ IF h = "empty"
             THEN /\ turn' = [NewTurn("evaluate") EXCEPT !.heard = h, !.response = "json",
                                                         !.returned = no_command_decision]
                  /\ UNCHANGED voice_pc
             ELSE /\ turn' = [NewTurn("evaluate") EXCEPT !.heard = h]
                  /\ voice_pc' = "evaluate"
          /\ lastOp' = Op("evaluate_voice_command_begin", "none", h)
    /\ UNCHANGED <<arbiterVars, stream_pc, bridgeVars, run_pc, last_decision,
                   script, command_text, gemini_client, evalOut, pc, lock,
                   consecutive_failures, feedVars>>

\* both routes: decision = voice_service.process_command(command_text, ...)
voice_process_command ==
    /\ voice_pc = "evaluate"
    /\ voice_pc' = "respond"
    /\ \E o \in TurnOutcomes :
          /\ turn' = [turn EXCEPT !.decision = o.result, !.calls = o.calls]
          /\ lastOp' = Op("voice_process_command", o.result.valid, "returned")
    /\ UNCHANGED <<arbiterVars, stream_pc, bridgeVars, run_pc, last_decision,
                   script, command_text, gemini_client, evalOut, pc, lock,
                   consecutive_failures, feedVars>>

\* the try/except around speak(tts_result): /api/voice/evaluate has it,
\* /api/voice/listen has not
respond_speak_guarded(route) == route = "evaluate"

\* both routes: speak(tts_result), then global_state["last_decision"], then
\* run_lerobot_commands(target) as far as set_target
voice_respond ==
    /\ voice_pc = "respond"
    /\ \E sp \in SpeakOutcomes :
          /\ lastOp' = Op("voice_respond", turn.decision.valid, sp)
          /\ IF sp = "raised" /\ ~respond_speak_guarded(turn.route)
             THEN /\ turn' = [turn EXCEPT !.speech_failed = "respond", !.response = "error500"]
                  /\ voice_pc' = "idle"
                  /\ UNCHANGED <<last_decision, last_target>>
             ELSE /\ turn' = [turn EXCEPT
                                 !.speech_failed = IF sp = "raised" THEN "respond" ELSE "none",
                                 !.response = "json", !.returned = turn.decision]
                  /\ last_decision' = turn.decision
                  /\ IF dispatches(turn.decision)
                     THEN set_target(turn.decision.target) /\ voice_pc' = "check"
                     ELSE UNCHANGED last_target /\ voice_pc' = "idle"
    /\ UNCHANGED <<arbiterVars, stream_pc, process, orphans, readers, running, run_pc,
                   script, command_text, gemini_client, evalOut, pc, lock,
                   consecutive_failures, feedVars>>

(* ================== the operations, lock by lock ======================== *)
\* One thread per operation of the threaded server.  A thread that calls an
\* operation guarded by `with <lock>:` takes the lock, runs the body in
\* the steps in which it reads or writes _process, and leaves the `with`
\* block on return and on exception alike.  /api/lerobot/kill touches
\* lerobot_bridge._process without taking the bridge lock.

Threads == {"start", "enter", "stop", "is_running", "kill", "pauser", "detections"}
Locks == {"bridge", "pause", "detections"}

lock_of(t) == IF t \in {"start", "enter", "stop", "is_running"} THEN "bridge"
              ELSE IF t = "detections" THEN "detections" ELSE "pause"

raceFrame == <<stream_pc, run_pc, voice_pc, last_decision,
               script, command_text, gemini_client, evalOut, turn,
               consecutive_failures, feedVars>>

goto(t, label) == pc' = [pc EXCEPT ![t] = label]

\* leaving a `with` block
with_exit_keeps_lock(l) == UNCHANGED lock
with_exit(l) == lock' = [lock EXCEPT ![l] = "none"]

\* where a thread stands when it reaches its `with` statement: at the
\* start of the operation, except for kill, which reaches resume() last
at_with(t) == IF t = "kill" THEN "wait" ELSE "idle"

\* `with self._lock:` / `with self._pause_lock:` / `with self._detections_lock:`
\* a thread that finds the lock taken blocks, i.e. takes this step later
race_acquire(t) ==
    /\ pc[t] = at_with(t)
    /\ lock[lock_of(t)] = "none"
    /\ lock' = [lock EXCEPT ![lock_of(t)] = t]
    /\ goto(t, "body")
    /\ lastOp' = Op("race", "none", "none")
    /\ UNCHANGED <<arbiterVars, bridgeVars, raceFrame>>

\* start_recording_session inside the lock
race_start ==
    /\ pc["start"] = "body"
    /\ \E ret \in Rets, how \in Hows :
          /\ start_recording_session(ret, how)
          /\ how = "launched" => orphans < MaxOrphans
          /\ lastOp' = Op("race", "none", "none")
    /\ with_exit("bridge") /\ goto("start", "idle")
    /\ UNCHANGED <<arbiterVars, last_target, running, raceFrame>>

\* send_enter: `if self._process is None or self._process.poll() is not None`
race_enter_check ==
    /\ pc["enter"] = "body"
    /\ IF no_session
       THEN /\ with_exit("bridge") /\ goto("enter", "idle")
            /\ lastOp' = Op("race", "none", "none")
       ELSE /\ goto("enter", "use") /\ UNCHANGED lock
            /\ lastOp' = Op("race", "none", "none")
    /\ UNCHANGED <<arbiterVars, bridgeVars, raceFrame>>

\* send_enter: `if self._process.stdin: ...write("\n")`, in try/except
race_enter_use ==
    /\ pc["enter"] = "use"
    /\ IF process = "None"
       THEN lastOp' = Op("race", "none", "handle_absent")   \* AttributeError, caught
       ELSE \/ lastOp' = Op("race", "none", "written")
            \/ lastOp' = Op("race", "none", "none")
    /\ with_exit("bridge") /\ goto("enter", "idle")
    /\ UNCHANGED <<arbiterVars, bridgeVars, raceFrame>>

\* is_running: `self._process is not None`
race_is_running_first ==
    /\ pc["is_running"] = "body"
    /\ IF process = "None"
       THEN /\ with_exit("bridge") /\ goto("is_running", "idle")
            /\ lastOp' = Op("race", "none", "none")
       ELSE /\ goto("is_running", "poll") /\ UNCHANGED lock
            /\ lastOp' = Op("race", "none", "none")
    /\ UNCHANGED <<arbiterVars, bridgeVars, raceFrame>>

\* is_running: `and self._process.poll() is None`
race_is_running_poll ==
    /\ pc["is_running"] = "poll"
    /\ lastOp' = IF process = "None"
                 THEN Op("race", "none", "handle_absent")     \* AttributeError, raised
                 ELSE Op("race", "none", "none")
    /\ with_exit("bridge") /\ goto("is_running", "idle")
    /\ UNCHANGED <<arbiterVars, bridgeVars, raceFrame>>

\* stop_session: `if self._process is None` / `if self._process.poll() is None`
race_stop_check ==
    /\ pc["stop"] = "body"
    /\ IF process = "None"
       THEN /\ with_exit("bridge") /\ goto("stop", "idle")
            /\ lastOp' = Op("race", "none", "none")
       ELSE /\ goto("stop", IF poll_is_None THEN "shutdown" ELSE "clear")
            /\ UNCHANGED lock
            /\ lastOp' = Op("race", "none", "none")
    /\ UNCHANGED <<arbiterVars, bridgeVars, raceFrame>>

\* stop_session: `self._process.stdin.close(); self._process.terminate()`
race_stop_shutdown ==
    /\ pc["stop"] = "shutdown"
    /\ IF process = "None"
       THEN /\ goto("stop", "clear")
            /\ lastOp' = Op("race", "none", "handle_absent")  \* caught
       ELSE /\ lastOp' = Op("race", "none", "none")
            /\ \/ goto("stop", "waiting")                  \* signal sent
               \/ /\ process = "alive" /\ orphans < MaxOrphans
                  /\ goto("stop", "clear")                 \* raised, caught
    /\ UNCHANGED <<arbiterVars, bridgeVars, lock, raceFrame>>

\* stop_session: `self._process.wait(timeout=5)`, and kill() on timeout
race_stop_wait ==
    /\ pc["stop"] = "waiting"
    /\ IF process = "None"
       THEN /\ goto("stop", "clear") /\ UNCHANGED <<lock, process, readers>>
            /\ lastOp' = Op("race", "none", "handle_absent")  \* caught
       ELSE /\ lastOp' = Op("race", "none", "none")
            /\ \/ /\ process' = "exited"                    \* exited, or killed
                  /\ readers' = IF process = "alive" THEN readers - 1 ELSE readers
                  /\ goto("stop", "clear") /\ UNCHANGED lock
               \/ /\ process = "alive"                      \* timeout, kill() raises
                  /\ UNCHANGED <<process, readers>>
                  /\ with_exit("bridge") /\ goto("stop", "idle")
    /\ UNCHANGED <<arbiterVars, orphans, last_target, running, raceFrame>>

\* stop_session: `self._process = None; return True`
race_stop_clear ==
    /\ pc["stop"] = "clear"
    /\ process' = "None"
    /\ orphans' = IF process = "alive" THEN orphans + 1 ELSE orphans
    /\ with_exit("bridge") /\ goto("stop", "idle")
    /\ lastOp' = Op("race", "none", "none")
    /\ UNCHANGED <<arbiterVars, readers, last_target, running, raceFrame>>

\* /api/lerobot/kill: `if hasattr(...) and lerobot_bridge._process:`
race_kill_check ==
    /\ pc["kill"] = "idle"
    /\ goto("kill", IF process = "None" THEN "reset" ELSE "terminate")
    /\ lastOp' = Op("race", "none", "none")
    /\ UNCHANGED <<arbiterVars, bridgeVars, lock, raceFrame>>

\* /api/lerobot/kill: terminate(); kill() inside a bare try/except
race_kill_terminate ==
    /\ pc["kill"] = "terminate"
    /\ goto("kill", "clear")
    /\ IF process = "alive"
       THEN \/ /\ process' = "exited" /\ readers' = readers - 1
               /\ lastOp' = Op("race", "none", "none")
            \/ /\ orphans < MaxOrphans /\ UNCHANGED <<process, readers>>
               /\ lastOp' = Op("race", "none", "none")
       ELSE /\ UNCHANGED <<process, readers>>
            /\ lastOp' = Op("race", "none", IF process = "None" THEN "handle_absent" ELSE "none")
    /\ UNCHANGED <<arbiterVars, orphans, last_target, running, lock, raceFrame>>

\* /api/lerobot/kill: `lerobot_bridge._process = None`
race_kill_clear ==
    /\ pc["kill"] = "clear"
    /\ goto("kill", "reset")
    /\ process' = "None"
    /\ orphans' = IF process = "alive" THEN orphans + 1 ELSE orphans
    /\ lastOp' = Op("race", "none", "none")
    /\ UNCHANGED <<arbiterVars, readers, last_target, running, lock, raceFrame>>

\* /api/lerobot/kill: reset the bridge fields, taskkill, reach resume()
race_kill_reset ==
    /\ pc["kill"] = "reset"
    /\ goto("kill", "wait")
    /\ running' = FALSE
    /\ reset_last_target
    /\ lastOp' = Op("race", "none", "none")
    /\ UNCHANGED <<arbiterVars, process, orphans, readers, lock, raceFrame>>

\* /api/lerobot/kill: cv_video_service.resume() inside the pause lock
race_kill_resume ==
    /\ pc["kill"] = "body"
    /\ \E how \in ArbiterHows :
          resume(how) /\ lastOp' = Op("race", "none", "none")
    /\ with_exit("pause") /\ goto("kill", "idle")
    /\ UNCHANGED <<bridgeVars, raceFrame>>

\* pause() or resume() called by /api/video/pause, /api/video/resume, or
\* is_paused() called by a stream loop
race_pauser ==
    /\ pc["pauser"] = "body"
    /\ \/ \E how \in ArbiterHows : pause(how) \/ resume(how)
       \/ UNCHANGED arbiterVars
    /\ lastOp' = Op("race", "none", "none")
    /\ with_exit("pause") /\ goto("pauser", "idle")
    /\ UNCHANGED <<bridgeVars, raceFrame>>

\* get_detections / _set_detections
race_detections ==
    /\ pc["detections"] = "body"
    /\ with_exit("detections") /\ goto("detections", "idle")
    /\ lastOp' = Op("race", "none", "none")
    /\ UNCHANGED <<arbiterVars, bridgeVars, raceFrame>>

(* ======================= the evaluator on its own ======================= *)

pendingOut == Out(fallback_invalid, 0 - 1, <<>>)

evaluate ==
    /\ evalOut = pendingOut
    /\ evalOut' = process_command(gemini_client, command_text, script)
    /\ lastOp' = Op("process_command", "none", "returned")
    /\ UNCHANGED <<arbiterVars, stream_pc, bridgeVars, run_pc, voice_pc,
                   last_decision, script, command_text, gemini_client, turn,
                   pc, lock, consecutive_failures, feedVars>>

(* ============================ specifications ============================ *)

IdleScript == [i \in 1..ScriptLen |-> [kind |-> "errOther",
               body |-> [valid |-> "absent", target |-> "absent", reason |-> "absent"]]]

InitSystem ==
    /\ paused = FALSE
    /\ cap = [ch \in Channels |-> "None"]
    /\ stream_pc = [ch \in Channels |-> "top"]
    /\ lastCall = [call |-> "none", ret |-> "none"]
    /\ process = "None"
    /\ orphans = 0
    /\ readers = 0
    /\ last_target = NoTarget
    /\ running = FALSE
    /\ run_pc = "idle"
    /\ voice_pc = "idle"
    /\ last_decision = NoDecision
    /\ lastOp = Op("init", "none", "none")
    /\ turn = NoTurn
    /\ pc = [t \in Threads |-> "idle"]
    /\ lock = [l \in Locks |-> "none"]
    /\ consecutive_failures = [ch \in Channels |-> 0]
    /\ frozen_frame = [ch \in Channels |-> "None"]
    /\ frame_count = 0
    /\ lists = [n \in ListNames |-> <<>>]
    /\ latest_detections = "init"
    /\ cached_detections = "a"
    /\ results = 0
    /\ detected_at = 0 - 1
    /\ fetched = [r \in Readers |-> "none"]

Init ==
    /\ InitSystem
    /\ script = IdleScript
    /\ command_text = ""
    /\ gemini_client = TRUE
    /\ evalOut = pendingOut

Next ==
    \/ lerobot_start
    \/ lerobot_stop
    \/ lerobot_enter
    \/ lerobot_run_pause
    \/ lerobot_run_trigger
    \/ lerobot_kill
    \/ video_pause
    \/ video_resume
    \/ process_exit
    \/ \E ch \in Channels : stream_check_paused(ch)
    \/ \E ch \in Channels : stream_open(ch)
    \/ \E ch \in Channels : stream_read(ch)
    \/ voice_turn
    \/ run_lerobot_commands_check
    \/ run_lerobot_commands_enter

Spec == Init /\ [][Next]_vars

\* process_command applied to every evaluator script.
InitEval ==
    /\ InitSystem
    /\ evalOut = pendingOut
    /\ \/ /\ gemini_client = TRUE /\ command_text = "grab the nut"
          /\ script \in Scripts
       \/ /\ gemini_client = TRUE /\ command_text = ""
          /\ script = IdleScript
       \/ /\ gemini_client = FALSE /\ command_text \in {"", "grab the nut"}
          /\ script = IdleScript

NextEval == evaluate

SpecEval == InitEval /\ [][NextEval]_vars

\* the arm, video and voice routes without the stream generators, which
\* neither read nor write the bridge
NextBridge ==
    \/ lerobot_start
    \/ lerobot_stop
    \/ lerobot_enter
    \/ lerobot_run_pause
    \/ lerobot_run_trigger
    \/ lerobot_kill
    \/ video_pause
    \/ video_resume
    \/ process_exit
    \/ voice_turn
    \/ run_lerobot_commands_check
    \/ run_lerobot_commands_enter

SpecBridge == Init /\ [][NextBridge]_vars

\* the two stream loops with their failure counters, and the pause routes
NextStream ==
    \/ video_pause
    \/ video_resume
    \/ \E ch \in Channels : stream_check_paused(ch)
    \/ \E ch \in Channels : stream_open(ch)
    \/ \E ch \in Channels : stream_read_frame(ch)
    \/ \E ch \in Channels : stream_reopen(ch)

SpecStream == Init /\ [][NextStream]_vars

\* /api/video/feed (generate_stream, the one generator a route serves) frame
\* by frame, with /api/detections and the pause routes
FeedChannels == {"front"}

NextFeed ==
    \/ video_pause
    \/ video_resume
    \/ \E ch \in FeedChannels : stream_check_paused(ch)
    \/ \E ch \in FeedChannels : stream_open(ch)
    \/ \E ch \in FeedChannels : stream_read_image(ch)
    \/ \E ch \in FeedChannels : stream_reopen(ch)
    \/ \E ch \in FeedChannels : stream_frame(ch)
    \/ stream_yolo

SpecFeed == Init /\ [][NextFeed]_vars

\* the same feed, never paused, with the callers of /api/detections
NextDetections ==
    \/ \E ch \in FeedChannels : stream_check_paused(ch)
    \/ \E ch \in FeedChannels : stream_open(ch)
    \/ \E ch \in FeedChannels : stream_read_image(ch)
    \/ \E ch \in FeedChannels : stream_reopen(ch)
    \/ \E ch \in FeedChannels : stream_frame(ch)
    \/ stream_yolo
    \/ \E r \in Readers : get_detections(r)
    \/ \E r \in Readers : caller_mutates(r)

SpecDetections == Init /\ [][NextDetections]_vars

\* scheduling: a handler that has begun runs to its end; nothing obliges a
\* caller to send a request, nor a control process to exit
FairBridge ==
    /\ WF_vars(lerobot_run_trigger)
    /\ WF_vars(run_lerobot_commands_check)
    /\ WF_vars(run_lerobot_commands_enter)

SpecBridgeLive == SpecBridge /\ FairBridge

\* the bridge, arbiter and detection operations at the grain of their locks
NextRace ==
    \/ \E t \in Threads : race_acquire(t)
    \/ race_start
    \/ race_enter_check
    \/ race_enter_use
    \/ race_is_running_first
    \/ race_is_running_poll
    \/ race_stop_check
    \/ race_stop_shutdown
    \/ race_stop_wait
    \/ race_stop_clear
    \/ race_kill_check
    \/ race_kill_terminate
    \/ race_kill_clear
    \/ race_kill_reset
    \/ race_kill_resume
    \/ race_pauser
    \/ race_detections
    \/ process_exit

SpecRace == Init /\ [][NextRace]_vars

\* scheduling: a thread inside an operation keeps running, and a thread
\* waiting for a lock gets it if the lock is free again and again
FairRace ==
    /\ \A t \in Threads : SF_vars(race_acquire(t))
    /\ WF_vars(race_start)
    /\ WF_vars(race_enter_check) /\ WF_vars(race_enter_use)
    /\ WF_vars(race_is_running_first) /\ WF_vars(race_is_running_poll)
    /\ WF_vars(race_stop_check) /\ WF_vars(race_stop_shutdown)
    /\ WF_vars(race_stop_wait) /\ WF_vars(race_stop_clear)
    /\ WF_vars(race_kill_terminate) /\ WF_vars(race_kill_clear) /\ WF_vars(race_kill_reset)
    /\ WF_vars(race_kill_resume)
    /\ WF_vars(race_pauser) /\ WF_vars(race_detections)

SpecRaceFair == SpecRace /\ FairRace

NextVoice ==
    \/ announce_visible_objects
    \/ trigger_voice_listen_announce
    \/ trigger_voice_listen_capture
    \/ trigger_voice_listen_no_command
    \/ evaluate_voice_command_begin
    \/ voice_process_command
    \/ voice_respond
    \/ run_lerobot_commands_check
    \/ run_lerobot_commands_enter
    \/ lerobot_start
    \/ lerobot_kill
    \/ video_pause
    \/ process_exit

SpecVoice == Init /\ [][NextVoice]_vars

(* =============================== claims ================================= *)

released == \A ch \in Channels : cap[ch] # "open"
starts == lastOp.op = "lerobot_start"
stops == lastOp.op = "lerobot_stop"

\* C1: whenever the bridge's is_running() is true, the camera arbiter's
\* paused flag is true.
C1_RunningImpliesPaused == is_running => is_paused

\* C2: never is a control process alive while the arbiter holds an open
\* capture handle (_cap or _cap_2) for camera 2 or 3.
C2_NoSharedDevice == (process = "alive" \/ orphans > 0) => released

\* C3: every launch of the control process and every Enter written to it
\* happens after a completed pause() with no resume() in between, the arbiter
\* holding no open capture handle at that moment.
C3_PauseBeforeDispatch ==
    [][(lastOp'.how \in {"launched", "written"})
          => (lastCall.call = "pause" /\ released)]_vars

\* C4: is_paused() equals the fold of the pause()/resume() calls made so far
\* (true iff the last call was pause, false when there was none), every call
\* returns success, and a call repeated twice in a row changes nothing.
C4_PauseResumeFold ==
    /\ [](is_paused = (lastCall.call = "pause"))
    /\ [](lastCall.call # "none" => lastCall.ret = "true")
    /\ [][(lastOp'.how \in {"pause", "pause_noop"} /\ lastCall.call = "pause")
             \/ (lastOp'.how \in {"resume", "resume_noop"} /\ lastCall.call = "resume")
          => UNCHANGED <<paused, cap, lastCall>>]_vars
C4_Witness == lastOp.how = "pause_noop" /\ is_paused

\* C5 (as stated): start() while a session is running does not report
\* success to the caller.
C5_StartWhileRunningFails ==
    [][(is_running /\ starts') => lastOp'.ret # "true"]_vars
\* C5 (amended): start() while a session is running reports success, taking
\* the "already running" branch.
C5_StartWhileRunningSucceeds ==
    [][(is_running /\ starts') => (lastOp'.ret = "true" /\ lastOp'.how = "already")]_vars
C5_Witness == starts /\ lastOp.how = "already" /\ lastOp.ret = "true"

\* C6: start() while a session is running launches no process, spawns no
\* reader thread and keeps the process handle.
C6_StartWhileRunningFrame ==
    [][(is_running /\ starts')
          => (UNCHANGED <<process, orphans, readers>> /\ lastOp'.how # "launched")]_vars
C6_Witness == starts /\ lastOp.how = "already" /\ is_running /\ readers > 0

\* C7: stop() on a live process that does not exit within the bounded wait
\* escalates to kill() and ends Idle: no handle held, is_running() false.
C7_StopAfterTimeoutEndsIdle ==
    (stops /\ lastOp.how \in {"forced", "kill_raised"})
       => (process = "None" /\ ~is_running)

\* C8: stop() ends Idle (no handle held, is_running() false) even when the
\* forced kill raises after the graceful wait timed out.
C8_StopEndsIdleWhenKillRaises ==
    (stops /\ lastOp.how = "kill_raised") => (process = "None" /\ ~is_running)

(* ---- process_command, checked under SpecEval ---- *)

returned == evalOut # pendingOut
attempted == gemini_client /\ command_text # ""
retriableAt(i) == script[i].kind \in {"err429", "err503"}

\* C9: the delay slept before attempt k+1 is GEMINI_RETRY_DELAY * 2^(k-1),
\* there is one sleep between consecutive attempts and no other, and two
\* retriable failures followed by a success return the third attempt's
\* decision after sleeping exactly base*1 then base*2.
C9_RetryBackoff ==
    returned =>
      /\ \A k \in 1..Len(evalOut.sleeps) :
            evalOut.sleeps[k] = GEMINI_RETRY_DELAY * 2^(k - 1)
      /\ evalOut.calls > 0 => Len(evalOut.sleeps) = evalOut.calls - 1
      /\ (attempted /\ retriableAt(1) /\ retriableAt(2) /\ script[3].kind = "json")
            => /\ evalOut.calls = 3
               /\ evalOut.sleeps = <<GEMINI_RETRY_DELAY, GEMINI_RETRY_DELAY * 2>>
               /\ evalOut.result = setdefaults(script[3].body)
C9_Witness ==
    /\ returned /\ attempted /\ retriableAt(1) /\ retriableAt(2)
    /\ script[3].kind = "json" /\ script[3].body.valid = "true"
    /\ evalOut.result.valid = "true" /\ Len(evalOut.sleeps) = 2

\* C10: when every attempt fails retriably, process_command makes exactly
\* GEMINI_MAX_RETRIES calls, sleeps GEMINI_MAX_RETRIES - 1 times and returns
\* the fallback (valid false, no target); it never makes more than
\* GEMINI_MAX_RETRIES calls.
C10_RetryExhaustion ==
    returned =>
      /\ evalOut.calls <= GEMINI_MAX_RETRIES
      /\ Len(evalOut.sleeps) <= GEMINI_MAX_RETRIES - 1
      /\ (attempted /\ \A i \in 1..GEMINI_MAX_RETRIES : retriableAt(i))
            => /\ evalOut.calls = GEMINI_MAX_RETRIES
               /\ Len(evalOut.sleeps) = GEMINI_MAX_RETRIES - 1
               /\ evalOut.result.valid = "false"
               /\ evalOut.result.target = NoTarget
C10_Witness ==
    /\ returned /\ attempted /\ \A i \in 1..ScriptLen : retriableAt(i)
    /\ evalOut.calls = GEMINI_MAX_RETRIES

retriableBefore(k) == \A i \in 1..(k - 1) : retriableAt(i)
\* an exception outside the 429/503 class, a body that is not JSON, or JSON
\* that is not an object
permanentAt(k) == script[k].kind \in {"errOther", "nonjson", "nondict"}
\* a JSON object that lacks one of the fields valid, target, reason
lacksField(k) ==
    /\ script[k].kind = "json"
    /\ "absent" \in {script[k].body.valid, script[k].body.target, script[k].body.reason}
endsAt(k) == evalOut.calls = k /\ Len(evalOut.sleeps) = k - 1

\* C11 (as stated): a non-retriable evaluator failure (non-JSON response,
\* unexpected schema, exception other than rate-limit/unavailable) on attempt
\* k ends process_command at that attempt with no further call or sleep and
\* the fallback decision (valid false, no target, reason "Cannot evaluate.").
C11_PermanentFailureFallsBack ==
    (returned /\ attempted) =>
       \A k \in 1..GEMINI_MAX_RETRIES :
          (retriableBefore(k) /\ (permanentAt(k) \/ lacksField(k)))
             => (endsAt(k) /\ evalOut.result = fallback_invalid)
\* C11 (amended): a non-JSON body, JSON that is not an object, or an
\* exception outside the 429/503 class on attempt k ends process_command at
\* that attempt with the fallback decision; a JSON object lacking fields
\* also ends it at that attempt, but is returned completed with the
\* defaults instead of the fallback.
C11_PermanentFailureOrDefaults ==
    (returned /\ attempted) =>
       \A k \in 1..GEMINI_MAX_RETRIES :
          /\ (retriableBefore(k) /\ permanentAt(k))
                => (endsAt(k) /\ evalOut.result = fallback_invalid)
          /\ (retriableBefore(k) /\ lacksField(k))
                => (endsAt(k) /\ evalOut.result = setdefaults(script[k].body))
C11_Witness ==
    /\ returned /\ attempted /\ retriableAt(1) /\ script[2].kind = "errOther"
    /\ evalOut.calls = 2 /\ evalOut.sleeps = <<GEMINI_RETRY_DELAY>>
    /\ evalOut.result = fallback_invalid

(* ---- the voice routes, checked under SpecVoice ---- *)

turnReturned == turn.route # "none" /\ voice_pc = "idle"

\* C12: a /api/voice/listen call whose listen() gave an empty transcript
\* returns a body whose decision has valid false and no target, having made
\* no evaluator call and no dispatch.
C12_EmptyCaptureShortCircuits ==
    (turnReturned /\ turn.route = "listen" /\ turn.heard = "empty")
       => /\ turn.response = "json"
          /\ turn.returned.valid = "false" /\ turn.returned.target = NoTarget
          /\ turn.returned # NoDecision
          /\ turn.calls = 0
          /\ turn.decision = NoDecision

\* C13: a voice call with a valid decision for target t that finds the
\* bridge idle returns with the camera paused, a session running and
\* last_target = t.
C13_DispatchStartsSession ==
    (lastOp.op = "run_lerobot_commands_check" /\ lastOp.ret = "false")
       => (is_paused /\ is_running /\ last_target = turn.decision.target)

\* C14: when the trigger write of /api/lerobot/run fails the camera is not
\* paused when the route returns, and a failing bridge call of either
\* dispatch (trigger write, Enter of run_lerobot_commands) leaves the
\* recorded decision as it was.
C14_DispatchFailureResumes ==
    /\ [][(lastOp'.op = "lerobot_run_trigger" /\ lastOp'.ret = "false")
             => ~is_paused']_vars
    /\ [][(lastOp'.op \in {"lerobot_run_trigger", "run_lerobot_commands_enter"}
              /\ lastOp'.ret = "false")
             => UNCHANGED last_decision]_vars
C14_Witness ==
    /\ lastOp.op = "lerobot_run_trigger" /\ lastOp.ret = "false" /\ lastOp.how = "resume"
    /\ ~is_paused /\ dispatches(last_decision)

kills == lastOp.op = "lerobot_kill"

\* C15: /api/lerobot/kill with no running session answers success, launches
\* nothing, leaves an unpaused camera unpaused, and a second kill right
\* after a kill gives the same answer and the same state.
C15_KillIdleIsNoop ==
    /\ [][(kills' /\ ~is_running)
             => /\ lastOp'.ret = "true"
                /\ UNCHANGED <<orphans, readers>> /\ process' = "None"
                /\ (~is_paused => ~is_paused')]_vars
    /\ [][(kills /\ kills')
             => /\ lastOp'.ret = lastOp.ret
                /\ UNCHANGED <<arbiterVars, bridgeVars, stream_pc, run_pc,
                               voice_pc, last_decision>>]_vars
C15_Witness ==
    /\ kills /\ lastOp.ret = "true" /\ lastOp.how = "resume_noop"
    /\ process = "None" /\ readers = 0 /\ orphans = 0 /\ ~is_paused

\* C16: after /api/lerobot/kill, whether or not terminate()/kill() raised,
\* the camera is not paused, is_running() is false and last_target is None.
C16_KillResets ==
    [][kills' => (~is_paused' /\ ~is_running' /\ last_target' = NoTarget)]_vars
C16_Witness ==
    /\ kills /\ lastOp.how = "resume" /\ orphans > 0
    /\ ~is_paused /\ ~is_running /\ last_target = NoTarget

enters == lastOp.op \in {"lerobot_enter", "run_lerobot_commands_enter"}

\* C17: send_enter with no handle or an exited process returns False from
\* the no-session branch, writes nothing, launches nothing and leaves
\* is_running() false.
C17_EnterWithoutSession ==
    [][(enters' /\ ~is_running)
          => /\ lastOp'.ret = "false" /\ lastOp'.how = "no_session"
             /\ UNCHANGED bridgeVars
             /\ ~is_running']_vars
C17_Witness ==
    /\ lastOp.op = "lerobot_enter" /\ lastOp.how = "no_session" /\ lastOp.ret = "false"
    /\ process = "exited"

\* C18: is_running() is true exactly when a handle is held and its process
\* has not exited; after a process exits on its own, its handle still
\* held, is_running() is false.
C18_RunningIffHeldAndAlive ==
    /\ [](is_running <=> (process # "None" /\ process # "exited"))
    /\ [][(lastOp'.op = "process_exit" /\ process = "alive" /\ process' # "alive")
             => (process' # "None" /\ ~is_running')]_vars
C18_Witness ==
    lastOp.op = "process_exit" /\ process = "exited" /\ ~is_running

\* C19: when speaking the result utterance raised, the call still returns
\* the evaluator's decision in its body and records it as last_decision.
C19_RespondSpeechNotFatal ==
    turn.speech_failed = "respond"
       => /\ turn.response = "json"
          /\ turn.returned = turn.decision
          /\ last_decision = turn.decision

\* C20: when speaking the announce prompt raised, the call returns a body
\* (not an unhandled error) and the body tells of the speech failure.
C20_AnnounceFailureSurfaced ==
    turn.speech_failed = "announce"
       => (turn.response = "json" /\ turn.speech_error # "absent")

(* ---- the operations lock by lock, checked under SpecRace ---- *)

\* C21: no operation meets a handle that became absent between its check
\* and its use, and every Enter written goes to a process that is
\* still referenced by the bridge at the moment of the write.
C21_NoTornHandle ==
    /\ [](lastOp.how # "handle_absent")
    /\ [][(lastOp'.op = "race" /\ lastOp'.how = "written") => process # "None"]_vars

\* C22: a lock is held only by a thread inside the operation that took it
\* (so a thread blocked on a lock holds none), and every thread that has
\* entered an operation returns from it, so every lock taken is released.
C22_NoDeadlock ==
    /\ [](\A l \in Locks : lock[l] # "none" =>
             (lock_of(lock[l]) = l /\ pc[lock[l]] \notin {"idle", "wait"}))
    /\ \A t \in Threads : (pc[t] # "idle") ~> (pc[t] = "idle")
C22_Witness ==
    /\ lock["bridge"] = "stop" /\ pc["stop"] = "clear"
    /\ lock["pause"] = "pauser" /\ pc["kill"] = "wait"

\* C23: at most one control process launched by the bridge is alive at any
\* time, counting the processes whose handle the bridge has dropped.
alive_processes == (IF process = "alive" THEN 1 ELSE 0) + orphans
C23_AtMostOneAlive == alive_processes <= 1

\* C24: whenever a session ends (stop, kill, or the process exiting)
\* while the camera is paused, the camera is resumed without a further
\* request from the caller.
session_ended ==
    \/ lastOp.op = "lerobot_stop" /\ lastOp.how \in {"graceful", "forced", "error"}
    \/ lastOp.op = "lerobot_kill"
    \/ lastOp.op = "process_exit" /\ process = "exited"
C24_SessionEndResumes == (session_ended /\ paused) ~> ~paused

\* C25: a stream loop never leaves its `while True`, whatever the
\* interleaving of open failures, read failures, pause and resume.
C25_StreamNeverDies == \A ch \in Channels : stream_pc[ch] # "dead"

\* C29: a successful read resets the failure counter of its loop; a failed
\* read that leaves the counter below the limit does not touch the handle;
\* the read that brings it to the limit is followed by the release and
\* clearing of the handle with the counter back at 0, and the loop goes on
\* to its next iteration.
reads(ch) == stream_pc[ch] = "read" /\ stream_pc'[ch] # "read"
gives_up(ch) == stream_pc[ch] = "reopen" /\ stream_pc'[ch] # "reopen"
C29_FailureCounter ==
    [][\A ch \in Channels :
         /\ (reads(ch) /\ lastOp'.how = "frame") => consecutive_failures'[ch] = 0
         /\ (reads(ch) /\ lastOp'.how = "read_failed") =>
                /\ cap'[ch] = cap[ch]
                /\ consecutive_failures'[ch] = consecutive_failures[ch] + 1
                /\ (stream_pc'[ch] = "reopen") <=> (consecutive_failures'[ch] >= failure_limit)
         /\ gives_up(ch) =>
                /\ cap'[ch] = "None"
                /\ consecutive_failures'[ch] = 0
                /\ stream_pc'[ch] = "top"]_vars

\* C30: pause() called on an unpaused arbiter returns success with the
\* arbiter paused and both capture handles cleared, whatever release() did.
C30_PauseClearsHandles ==
    [][(lastOp'.op = "video_pause" /\ ~paused) =>
          /\ paused'
          /\ \A ch \in Channels : cap'[ch] = "None"
          /\ lastOp'.ret = "true" /\ lastCall' = [call |-> "pause", ret |-> "true"]]_vars
C30_Witness ==
    /\ lastOp.op = "video_pause" /\ lastOp.how = "pause"
    /\ paused /\ \A ch \in Channels : cap[ch] = "None" /\ stream_pc[ch] = "read"

C27_StopReturnsWhetherRunning ==
    [][lastOp'.op = "lerobot_stop" =>
          /\ lastOp'.ret = "true" => is_running
          /\ lastOp'.ret = "false" => ~is_running]_vars

\* C28: the dispatch is entered only with a valid decision that carries a
\* target, and a voice turn that ends without such a decision changes
\* neither the bridge (last_target, process) nor the paused flag.
valid_with_target(d) == d.valid = "true" /\ d.target # NoTarget
voice_steps == {"announce_visible_objects", "trigger_voice_listen_announce",
                "trigger_voice_listen_capture", "trigger_voice_listen_no_command",
                "evaluate_voice_command_begin", "voice_process_command"}
C28_NoDispatchWithoutTarget ==
    /\ [](voice_pc \in {"check", "enter"} => valid_with_target(turn.decision))
    /\ [][(lastOp'.op = "voice_respond" /\ ~valid_with_target(turn'.decision)) =>
             /\ voice_pc' = "idle"
             /\ UNCHANGED <<bridgeVars, paused>>]_vars
    /\ [][lastOp'.op \in voice_steps =>
             /\ voice_pc' \notin {"check", "enter"}
             /\ UNCHANGED <<bridgeVars, paused>>]_vars
C28_Witness ==
    /\ lastOp.op = "voice_respond" /\ turn.response = "json"
    /\ turn.decision.valid = "true" /\ turn.decision.target = NoTarget
    /\ voice_pc = "idle"

\* C37: the bridge lock is not held across a blocking call: not by
\* stop_session while it waits for the process to exit, not by send_enter
\* across its write.
blocking(t) == (t = "stop" /\ pc[t] = "waiting") \/ (t = "enter" /\ pc[t] = "use")
C37_NoLockAcrossBlocking ==
    \A t \in Threads : blocking(t) => lock[lock_of(t)] # t

\* C38: whenever the arbiter is paused (pause() being one step, none is in
\* progress in any state), neither capture handle is held.
C38_PausedMeansNoHandle == is_paused => \A ch \in Channels : cap[ch] = "None"

\* C31: resume() clears the paused flag and leaves both capture handles as
\* they were; a handle becomes open only in the open step of its stream
\* loop, and that step is reached only from a paused-check that found the
\* arbiter not paused.
C31_ResumeIsLazy ==
    /\ [][lastOp'.how \in {"resume", "resume_noop"} => (cap' = cap /\ ~paused')]_vars
    /\ [][\A ch \in Channels :
             (cap'[ch] = "open" /\ cap[ch] # "open") =>
                (lastOp'.op = "stream" /\ stream_pc[ch] = "open")]_vars
    /\ [][\A ch \in Channels :
             (stream_pc'[ch] = "open" /\ stream_pc[ch] # "open") =>
                (stream_pc[ch] = "top" /\ ~paused)]_vars
C31_Witness ==
    /\ lastOp.op = "video_resume" /\ lastOp.how = "resume" /\ ~paused
    /\ \A ch \in Channels : cap[ch] = "None" /\ stream_pc[ch] = "top"

\* C39: a successful run trigger ends with get_status reporting
\* running = true and last_target = "nut" and with the camera paused, and
\* this stays so over every step that is not a kill or a stop.
marked_running ==
    lerobot_status.running /\ lerobot_status.last_target = "nut" /\ is_paused
C39_RunMarksRunning ==
    /\ [][lastOp'.how = "trigger_written" => marked_running']_vars
    /\ [][(running /\ marked_running /\ lastOp'.op \notin {"lerobot_kill", "lerobot_stop"})
             => marked_running']_vars

\* C36: when the attempt that ends process_command got a JSON object, the
\* decision returned has exactly the fields valid, target and reason; a
\* field the object lacked has its default (valid false, no target,
\* "No reason provided.") and a field it had is returned as it was.
C36_SchemaDefaults ==
    (returned /\ attempted) =>
       \A k \in 1..GEMINI_MAX_RETRIES :
          (retriableBefore(k) /\ script[k].kind = "json") =>
             LET b == script[k].body
                 r == evalOut.result
             IN  /\ DOMAIN r = {"valid", "target", "reason"}
                 /\ r.valid = (IF b.valid = "absent" THEN "false" ELSE b.valid)
                 /\ r.target = (IF b.target = "absent" THEN NoTarget ELSE b.target)
                 /\ r.reason = (IF b.reason = "absent" THEN "No reason provided." ELSE b.reason)
C36_Witness ==
    /\ returned /\ attempted /\ retriableAt(1) /\ script[2].kind = "json"
    /\ script[2].body = [valid |-> "true", target |-> "absent", reason |-> "absent"]
    /\ evalOut.result = [valid |-> "true", target |-> NoTarget, reason |-> "No reason provided."]

\* C35 (as stated): set_target(name) makes get_status report last_target =
\* name and leaves the control process alone, and a recorded name is
\* replaced only by the next set_target or by a kill.
sets_target ==
    /\ lastOp'.op = "voice_turn" /\ lastOp'.how = "decided"
    /\ last_decision'.valid = "true" /\ last_decision'.target # NoTarget
records_target ==
    sets_target => /\ lerobot_status'.last_target = last_decision'.target
                   /\ UNCHANGED <<process, orphans, readers>>
C35_TargetKeptUntilSetOrKill ==
    /\ [][records_target]_vars
    /\ [][(last_target \in Targets /\ last_target' # last_target) =>
             (sets_target \/ lastOp'.op = "lerobot_kill")]_vars
\* C35 (amended): the same, except that a successful /api/lerobot/run also
\* replaces the recorded name, by "nut".
C35_TargetKeptUntilSetRunOrKill ==
    /\ [][records_target]_vars
    /\ [][(last_target \in Targets /\ last_target' # last_target) =>
             \/ sets_target
             \/ lastOp'.op = "lerobot_kill"
             \/ lastOp'.how = "trigger_written" /\ last_target' = "nut"]_vars
C35_Witness ==
    /\ lastOp.op = "lerobot_enter" /\ lastOp.how = "no_session"
    /\ lerobot_status.last_target = "gear" /\ ~lerobot_status.running

\* C32: a channel's last-known-good frame is changed only by the step that
\* follows a successful read of that channel; pause() and resume() leave
\* the frames of both channels as they are.
C32_FrameChangedOnlyByRead ==
    [][\A ch \in Channels :
          frozen_frame'[ch] # frozen_frame[ch] =>
              lastOp'.op = "stream" /\ stream_pc[ch] = "frame"]_vars

\* C33: the detector runs on exactly the successfully read frames whose
\* index is a multiple of 3, the first included; each run replaces the
\* published list; the published list is never older than 3 successfully
\* read frames; and the frame index advances, by one, only on a
\* successfully read frame, never on a failed read or a paused iteration.
frame_done == lastOp'.op = "stream" /\ lastOp'.how \in {"drawn", "published"}
C33_DetectionCadence ==
    /\ [][frame_done /\ frame_count' # frame_count =>
             (lastOp'.how = "published" <=> frame_count % 3 = 0)]_vars
    /\ [][lastOp'.how = "published" =>
             /\ latest_detections' # latest_detections
             /\ lists'[latest_detections'] = lists[cached_detections]
             /\ detected_at' = frame_count]_vars
    /\ [](frame_count > 0 => detected_at >= 0 /\ frame_count - detected_at <= 3)
    /\ [][frame_count' # frame_count =>
             /\ frame_count' = frame_count + 1
             /\ stream_pc["front"] \in {"frame", "yolo"}
             /\ frame_done]_vars
C33_Witness ==
    /\ frame_count = 3 /\ detected_at = 0
    /\ stream_pc["front"] = "yolo" /\ Len(lists[cached_detections]) = results
    /\ results > 0 /\ paused /\ frozen_frame["front"] = "frame"

\* C34: what get_detections() returns is the complete list of one detector
\* run (or the empty list the service starts with), whatever the stream
\* loop and other readers are doing, and a caller that changes the list it
\* was given changes nothing about the published list.
complete(l) == \A i \in 1..Len(l) : l[i].of = Len(l) /\ l[i].run = l[1].run
C34_SnapshotConsistent ==
    /\ [][lastOp'.op = "get_detections" =>
             /\ lists'[fetched'[lastOp'.ret]] = lists[latest_detections]
             /\ complete(lists'[fetched'[lastOp'.ret]])]_vars
    /\ [][lists'[latest_detections'] # lists[latest_detections] =>
             lastOp'.how = "published"]_vars
C34_Witness ==
    /\ lastOp.op = "get_detections" /\ lastOp.ret = "r1"
    /\ Len(lists[fetched["r1"]]) > 0
    /\ stream_pc["front"] = "yolo" /\ results > 1 /\ Len(lists[cached_detections]) = 1
    /\ fetched["r2"] # "none" /\ lists[fetched["r2"]] # lists[latest_detections]

====
